---- MODULE Spec2Model ----
(***************************************************************************)
(* Model of the bus animation page (src/index.ts, lines 1-262): the feed   *)
(* loader fetchAndInitMap, the scheduler checkForBusesToAnimate and the    *)
(* BusAnimator class.  Everything runs on the single JavaScript event      *)
(* loop, so every action below is one task (or microtask) run to           *)
(* completion: the feed load, one poll, the continuation of initialize()   *)
(* after its await, one setTimeout callback.  A timeout callback runs in   *)
(* some later task: its delay is computed and recorded as the code does,   *)
(* but callbacks of different animators are not ordered by their delays.   *)
(* The clock is read only by the scheduler, so time advances in the action *)
(* that runs the interval callback; it starts when the page loads the feed.*)
(***************************************************************************)
EXTENDS Integers, Sequences, FiniteSets, TLC

\* ------------------------------------------------------------------ bounds
MaxTrips == 2          \* records in data.txt
MaxLen == 3            \* coordinates in one overview polyline
MaxPolls == 1          \* setInterval firings that are followed

\* --------------------------------------------------------------- constants
PollIntervalMs == 30000
averageSpeedMpsX100 == 1111

BusNumbers == {"A", "B"}
StartTimes == {0, PollIntervalMs}
\* coordinates are counted in units of 1e-5 degree, the precision of the
\* polyline encoding.  A route starts at the geocoded origin (here the map
\* centre) and goes on with repeated points and moves
Origin == <<3090097, 7585727>>
Repeat == <<0, 0>>
Move == <<1, -1>>
Undefined == <<>>

\* ------------------------------------------------------------------- state
VARIABLES
    pc,                  \* "loading" | "running" | "loadFailed"
    feed,                \* the content of data.txt
    alertShown,          \* alert(...) was called
    now,                 \* wall clock, ms, as last read by the scheduler
    pollCount,           \* interval callbacks run so far
    lastPollAt,          \* currentTime of the latest poll, -1 before the first
    initAt,              \* time at which initMap ran, -1 before
    allBusData,          \* the global trip list
    animators,           \* every BusAnimator constructed so far, by identity
    activeBusAnimators,  \* the global registry: sequence of animator identities
    pendingFetch,        \* animators whose directionsService.route() is in flight
    timers,              \* pending setTimeout callbacks
    fitBoundsArg         \* the latest map.fitBounds call

vars == <<pc, feed, alertShown, now, pollCount, lastPollAt, initAt,
          allBusData, animators, activeBusAnimators, pendingFetch, timers,
          fitBoundsArg>>

\* ---------------------------------------------------------------- helpers
RECURSIVE SeqsUpTo(_, _)
SeqsUpTo(S, n) ==
    IF n = 0 THEN {<<>>}
    ELSE LET shorter == SeqsUpTo(S, n - 1)
         IN shorter \cup {Append(s, x) : s \in {t \in shorter : Len(t) = n - 1}, x \in S}

Abs(x) == IF x < 0 THEN -x ELSE x
Min(S) == CHOOSE x \in S : \A y \in S : x <= y

Trips == [busNumber : BusNumbers, startTime : StartTimes, isAnimated : {FALSE}]
\* feeds up to the naming of the buses: the first record is bus "A"
Feeds == {f \in SeqsUpTo(Trips, MaxTrips) : f = <<>> \/ f[1].busNumber = "A"}

\* a route of n points that alternates repeated points and moves
RECURSIVE Alternating(_, _)
Alternating(n, delta) ==
    IF n = 0 THEN <<>>
    ELSE <<delta>> \o Alternating(n - 1, IF delta = Move THEN Repeat ELSE Move)

\* the routes a provider can return, as per-point deltas: no point, the
\* origin alone, or the origin followed by MaxLen - 1 further points,
\* beginning with a repeated point or a move
RouteDeltas ==
    {<<>>} \cup {<<Origin>> \o Alternating(n - 1, d) : n \in {1, MaxLen}, d \in {Repeat, Move}}

\* the points of a route given by its deltas
RECURSIVE PointsOf(_)
PointsOf(deltas) ==
    IF deltas = <<>> THEN <<>>
    ELSE LET n == Len(deltas)
             front == PointsOf(SubSeq(deltas, 1, n - 1))
             prev == IF n = 1 THEN <<0, 0>> ELSE front[n - 1]
         IN Append(front, <<prev[1] + deltas[n][1], prev[2] + deltas[n][2]>>)

RoutePoints == {PointsOf(d) : d \in RouteDeltas}

\* ---- the polyline codec (@mapbox/polyline), strings as sequences of char codes
\* zig-zag: v << 1, inverted when v is negative
ZigZag(v) == IF v < 0 THEN -2 * v - 1 ELSE 2 * v

\* (result & 1) ? ~(result >> 1) : (result >> 1)
UnZigZag(r) == IF r % 2 = 1 THEN -(r \div 2) - 1 ELSE r \div 2

\* one value as 5-bit chunks, low chunk first, 0x20 set on all but the last, + 63
RECURSIVE EncodeChunks(_)
EncodeChunks(z) ==
    IF z >= 32 THEN <<(32 + (z % 32)) + 63>> \o EncodeChunks(z \div 32)
    ELSE <<z + 63>>

\* polyline.encode
RECURSIVE polylineEncodeFrom(_, _, _)
polylineEncodeFrom(points, i, prev) ==
    IF i > Len(points) THEN <<>>
    ELSE EncodeChunks(ZigZag(points[i][1] - prev[1]))
         \o EncodeChunks(ZigZag(points[i][2] - prev[2]))
         \o polylineEncodeFrom(points, i + 1, points[i])

polylineEncode(points) == polylineEncodeFrom(points, 1, <<0, 0>>)

\* reads one value starting at str[i]: [value, next index]
RECURSIVE ReadValue(_, _, _, _)
ReadValue(str, i, weight, acc) ==
    IF i > Len(str) THEN [value |-> UnZigZag(acc), next |-> i]
    ELSE LET byte == str[i] - 63
             sum == acc + ((byte % 32) * weight)
         IN IF byte >= 32 THEN ReadValue(str, i + 1, weight * 32, sum)
            ELSE [value |-> UnZigZag(sum), next |-> i + 1]

\* polyline.decode
RECURSIVE polylineDecodeFrom(_, _, _)
polylineDecodeFrom(str, i, prev) ==
    IF i > Len(str) THEN <<>>
    ELSE LET lat == ReadValue(str, i, 1, 0)
             lng == ReadValue(str, lat.next, 1, 0)
             point == <<prev[1] + lat.value, prev[2] + lng.value>>
         IN <<point>> \o polylineDecodeFrom(str, lng.next, point)

polylineDecode(str) == polylineDecodeFrom(str, 1, <<0, 0>>)

\* the encoded polylines a route can carry
Polylines == {polylineEncode(P) : P \in RoutePoints}

\* what directionsService.route() can deliver
ProviderResults ==
    {[kind |-> k, decodable |-> FALSE, overview_polyline |-> <<>>] :
        k \in {"rejected", "noRoute", "noLegs"}}
    \cup {[kind |-> "route", decodable |-> FALSE, overview_polyline |-> <<>>]}
    \cup {[kind |-> "route", decodable |-> TRUE, overview_polyline |-> e] :
            e \in Polylines}

decodePolyline_Swapped(encoded) ==
    LET decoded == polylineDecode(encoded)
    IN [i \in 1..Len(decoded) |-> <<decoded[i][2], decoded[i][1]>>]

\* BusAnimator.decodePolyline: polyline.decode, then each pair point becomes
\* new LatLng(point[0], point[1])
decodePolyline(encoded) ==
    LET decoded == polylineDecode(encoded)
    IN [i \in 1..Len(decoded) |-> <<decoded[i][1], decoded[i][2]>>]

\* google.maps.geometry.spherical.computeDistanceBetween, metres; a missing
\* point gives no distance (animateNextStep reads only points of the route)
computeDistanceBetween(p, q) ==
    IF p = <<>> \/ q = <<>> THEN 0
    ELSE 1000 * (Abs(p[1] - q[1]) + Abs(p[2] - q[2]))

\* delay handed to setTimeout, ms
timeForSegmentMs(currentPos, nextPos) ==
    (computeDistanceBetween(currentPos, nextPos) * 100 * 1000) \div averageSpeedMpsX100

\* JavaScript array read: index i (0-based) or undefined
At(coords, i) == IF i >= 0 /\ i < Len(coords) THEN coords[i + 1] ELSE Undefined

\* setTimeout handles: <<animator, k>> names the k-th timeout that animator set
NoHandle == <<>>

\* no polyline decoded yet (0 is not a character of the encoding)
NoPolyline == <<0>>

NoMarker == [exists |-> FALSE, position |-> Undefined, map |-> FALSE]

\* new BusAnimator(bus, map, onComplete)
NewBusAnimator(busIdx) ==
    [busData |-> busIdx,
     marker |-> NoMarker,
     startMarker |-> "null",
     endMarker |-> "null",
     routeCoordinates |-> <<>>,
     decodedFrom |-> NoPolyline,
     animationIndex |-> 0,
     animationTimeout |-> NoHandle,
     renderer |-> [map |-> TRUE, directions |-> FALSE],
     initializeCalls |-> 0,
     onCompleteCalls |-> 0,
     steps |-> 0,
     timeoutsSet |-> 0,
     phase |-> "Initializing"]

\* the part of the program state the animator methods read and write
World == [animators |-> animators, active |-> activeBusAnimators,
          pendingFetch |-> pendingFetch, timers |-> timers]

\* activeBusAnimators.findIndex(anim => anim.busData.busNumber === bus.busNumber)
findIndex(data, w, busIdx) ==
    LET hits == {i \in 1..Len(w.active) :
                    data[w.animators[w.active[i]].busData].busNumber = data[busIdx].busNumber}
    IN IF hits = {} THEN 0 ELSE Min(hits)

splice(s, i) == SubSeq(s, 1, i - 1) \o SubSeq(s, i + 1, Len(s))

\* the closure created in checkForBusesToAnimate for trip busIdx
onAnimationComplete(data, w, busIdx) ==
    LET index == findIndex(data, w, busIdx)
    IN IF index > 0 THEN [w EXCEPT !.active = splice(w.active, index)] ELSE w

cleanup_HidesAll(data, w, a) ==
    LET an == w.animators[a]
        hidden == [b \in DOMAIN w.animators |->
                     [w.animators[b] EXCEPT !.marker = [@ EXCEPT !.map = FALSE]]]
        cleared == [hidden[a] EXCEPT
            !.renderer = [an.renderer EXCEPT !.map = FALSE],
            !.startMarker = IF an.startMarker = "null" THEN "null" ELSE "removed",
            !.endMarker = IF an.endMarker = "null" THEN "null" ELSE "removed",
            !.onCompleteCalls = an.onCompleteCalls + 1]
    IN onAnimationComplete(data, [w EXCEPT !.animators = [hidden EXCEPT ![a] = cleared]],
                           an.busData)

\* BusAnimator.cleanup
cleanup(data, w, a) ==
    LET an == w.animators[a]
        cleared == [an EXCEPT
            !.marker = IF an.marker.exists THEN [an.marker EXCEPT !.map = FALSE] ELSE an.marker,
            !.renderer = [an.renderer EXCEPT !.map = FALSE],
            !.startMarker = IF an.startMarker = "null" THEN "null" ELSE "removed",
            !.endMarker = IF an.endMarker = "null" THEN "null" ELSE "removed",
            !.onCompleteCalls = an.onCompleteCalls + 1]
    IN onAnimationComplete(data, [w EXCEPT !.animators[a] = cleared], an.busData)

AnimationFinished_OffByOne(an) == an.animationIndex >= Len(an.routeCoordinates)

\* the test at the top of animateNextStep
AnimationFinished(an) == an.animationIndex >= Len(an.routeCoordinates) - 1

animateNextStep_NoReturn(data, w, a) ==
    LET an == w.animators[a]
        finished == AnimationFinished(an)
        w1 == IF finished
              THEN cleanup(data, [w EXCEPT !.animators[a].phase = "Completed"], a)
              ELSE w
        delay == IF finished THEN 0
                 ELSE timeForSegmentMs(At(an.routeCoordinates, an.animationIndex),
                                       At(an.routeCoordinates, an.animationIndex + 1))
        handle == <<a, an.timeoutsSet + 1>>
    IN [w1 EXCEPT
         !.animators[a].animationTimeout = handle,
         !.animators[a].timeoutsSet = @ + 1,
         !.timers = @ \cup {[id |-> handle, owner |-> a, delay |-> delay]}]

\* BusAnimator.animateNextStep
animateNextStep(data, w, a) ==
    LET an == w.animators[a]
    IN IF AnimationFinished(an)
       THEN cleanup(data, [w EXCEPT !.animators[a].phase = "Completed"], a)
       ELSE LET currentPos == At(an.routeCoordinates, an.animationIndex)
                nextPos == At(an.routeCoordinates, an.animationIndex + 1)
                delay == timeForSegmentMs(currentPos, nextPos)
                handle == <<a, an.timeoutsSet + 1>>
            IN [w EXCEPT
                 !.animators[a].animationTimeout = handle,
                 !.animators[a].timeoutsSet = @ + 1,
                 !.animators[a].phase = "Animating",
                 !.timers = @ \cup {[id |-> handle, owner |-> a, delay |-> delay]}]

\* BusAnimator.startAnimation
startAnimation(data, w, a) ==
    LET an == w.animators[a]
        uncancelled == {t \in w.timers : ~(an.animationTimeout # NoHandle /\ t.id = an.animationTimeout)}
        first == At(an.routeCoordinates, 0)
        placed == [an EXCEPT
            !.animationIndex = 0,
            !.marker = IF ~an.marker.exists
                       THEN [exists |-> TRUE, position |-> first, map |-> TRUE]
                       ELSE [an.marker EXCEPT !.position = first]]
    IN animateNextStep(data, [w EXCEPT !.timers = uncancelled, !.animators[a] = placed], a)

StepIndex_Skips(i) == i + 2

\* this.animationIndex++ in the setTimeout callback created in animateNextStep
StepIndex(i) == i + 1

timeoutCallback(data, w, a) ==
    LET an == w.animators[a]
        idx == StepIndex(an.animationIndex)
        moved == [an EXCEPT
            !.animationIndex = idx,
            !.marker = [an.marker EXCEPT !.position = At(an.routeCoordinates, idx)],
            !.steps = an.steps + 1]
    IN animateNextStep(data, [w EXCEPT !.animators[a] = moved], a)

\* BusAnimator.initialize after the await: the route promise has settled
initializeResume(data, w, a, result) ==
    LET settled == [w EXCEPT !.pendingFetch = @ \ {a}]
        failed == [settled EXCEPT !.animators[a].phase = "Failed"]
    IN IF result.kind # "route"
       THEN failed
       ELSE LET rendered == [settled EXCEPT
                    !.animators[a].renderer = [@ EXCEPT !.directions = TRUE],
                    !.animators[a].startMarker = "onMap",
                    !.animators[a].endMarker = "onMap"]
            IN IF ~result.decodable
               THEN [rendered EXCEPT !.animators[a].phase = "Failed"]
               ELSE startAnimation(data,
                        [rendered EXCEPT
                            !.animators[a].decodedFrom = result.overview_polyline,
                            !.animators[a].routeCoordinates =
                                decodePolyline(result.overview_polyline)],
                        a)

IsDue_IgnoresFlag(bus, currentTime) == bus.startTime <= currentTime

IsDue_Strict(bus, currentTime) == bus.startTime < currentTime /\ ~bus.isAnimated

\* the condition of the scheduler's loop body
IsDue(bus, currentTime) == bus.startTime <= currentTime /\ ~bus.isAnimated

\* the for loop of checkForBusesToAnimate, from trip i on
RECURSIVE pollLoop(_, _, _, _, _)
pollLoop(i, data, w, added, currentTime) ==
    IF i > Len(data) THEN [data |-> data, w |-> w, wasNewBusAdded |-> added]
    ELSE IF IsDue(data[i], currentTime)
         THEN LET a == Len(w.animators) + 1
                  newAnimator == [NewBusAnimator(i) EXCEPT !.initializeCalls = 1]
              IN pollLoop(i + 1,
                          [data EXCEPT ![i].isAnimated = TRUE],
                          [w EXCEPT !.animators = Append(@, newAnimator),
                                    !.pendingFetch = @ \cup {a},
                                    !.active = Append(@, a)],
                          TRUE, currentTime)
         ELSE pollLoop(i + 1, data, w, added, currentTime)

\* google.maps.LatLngBounds, extended by every placed marker of the registry
EmptyBounds == [empty |-> TRUE, sw |-> <<0, 0>>, ne |-> <<0, 0>>]

extend_FromZero(b, p) ==
    [empty |-> FALSE,
     sw |-> <<IF p[1] < b.sw[1] THEN p[1] ELSE b.sw[1],
              IF p[2] < b.sw[2] THEN p[2] ELSE b.sw[2]>>,
     ne |-> <<IF p[1] > b.ne[1] THEN p[1] ELSE b.ne[1],
              IF p[2] > b.ne[2] THEN p[2] ELSE b.ne[2]>>]

extend(b, p) ==
    IF b.empty THEN [empty |-> FALSE, sw |-> p, ne |-> p]
    ELSE [empty |-> FALSE,
          sw |-> <<IF p[1] < b.sw[1] THEN p[1] ELSE b.sw[1],
                   IF p[2] < b.sw[2] THEN p[2] ELSE b.sw[2]>>,
          ne |-> <<IF p[1] > b.ne[1] THEN p[1] ELSE b.ne[1],
                   IF p[2] > b.ne[2] THEN p[2] ELSE b.ne[2]>>]

RECURSIVE boundsOver(_, _, _)
boundsOver(w, i, b) ==
    IF i > Len(w.active) THEN b
    ELSE LET m == w.animators[w.active[i]].marker
         IN boundsOver(w, i + 1,
                       IF m.exists /\ m.position # Undefined THEN extend(b, m.position) ELSE b)

\* a registry marker whose getPosition() is undefined
HasUnpositionedMarker(w) ==
    \E i \in 1..Len(w.active) :
        LET m == w.animators[w.active[i]].marker
        IN m.exists /\ m.position = Undefined

\* the tail of checkForBusesToAnimate: the map.fitBounds call, if any
fitBoundsAfter(polled, previous, extendThrows) ==
    IF polled.wasNewBusAdded /\ Len(polled.w.active) > 0 /\ ~extendThrows
    THEN [called |-> TRUE, bounds |-> boundsOver(polled.w, 1, EmptyBounds)]
    ELSE previous

\* checkForBusesToAnimate as one task
checkForBusesToAnimate(data, w, currentTime, extendThrows) ==
    LET polled == pollLoop(1, data, w, FALSE, currentTime)
    IN /\ allBusData' = polled.data
       /\ animators' = polled.w.animators
       /\ activeBusAnimators' = polled.w.active
       /\ pendingFetch' = polled.w.pendingFetch
       /\ timers' = polled.w.timers
       /\ extendThrows \in (IF HasUnpositionedMarker(polled.w) THEN BOOLEAN ELSE {FALSE})
       /\ fitBoundsArg' = fitBoundsAfter(polled, fitBoundsArg, extendThrows)
       /\ lastPollAt' = currentTime

SetWorld(w) ==
    /\ animators' = w.animators
    /\ activeBusAnimators' = w.active
    /\ pendingFetch' = w.pendingFetch
    /\ timers' = w.timers

\* ------------------------------------------------------------------- init
Init ==
    /\ pc = "loading"
    /\ feed \in Feeds
    /\ alertShown = FALSE
    /\ now = 0
    /\ pollCount = 0
    /\ lastPollAt = -1
    /\ initAt = -1
    /\ allBusData = <<>>
    /\ animators = <<>>
    /\ activeBusAnimators = <<>>
    /\ pendingFetch = {}
    /\ timers = {}
    /\ fitBoundsArg = [called |-> FALSE, bounds |-> EmptyBounds]

\* ---------------------------------------------------------------- actions
\* fetchAndInitMap, the feed loads: allBusData is set and initMap runs, which
\* installs the interval and polls once immediately
FetchAndInitMapOk ==
    /\ pc = "loading"
    /\ pc' = "running"
    /\ initAt' = now
    /\ \E extendThrows \in BOOLEAN :
          checkForBusesToAnimate(feed, World, now, extendThrows)
    /\ UNCHANGED <<feed, alertShown, now, pollCount>>

FetchAndInitMapFail_StillInits ==
    /\ pc = "loading"
    /\ pc' = "loadFailed"
    /\ alertShown' = TRUE
    /\ initAt' = now
    /\ checkForBusesToAnimate(feed, World, now, FALSE)
    /\ UNCHANGED <<feed, now, pollCount>>

\* fetchAndInitMap, the fetch or the JSON parse fails: alert, nothing else
FetchAndInitMapFail ==
    /\ pc = "loading"
    /\ pc' = "loadFailed"
    /\ alertShown' = TRUE
    /\ UNCHANGED <<feed, now, pollCount, lastPollAt, initAt, allBusData,
                   animators, activeBusAnimators, pendingFetch, timers, fitBoundsArg>>

\* the moments at which the next interval callback can run: a whole number
\* of intervals after initMap, not before its own turn nor before the clock
IntervalTimes ==
    {initAt + k * PollIntervalMs : k \in (pollCount + 1)..MaxPolls} \ 0..(now - 1)

\* the setInterval callback, run on time or late
Poll ==
    /\ pc = "running"
    /\ pollCount < MaxPolls
    /\ pollCount' = pollCount + 1
    /\ \E currentTime \in IntervalTimes :
          /\ now' = currentTime
          /\ \E extendThrows \in BOOLEAN :
                checkForBusesToAnimate(allBusData, World, currentTime, extendThrows)
    /\ UNCHANGED <<pc, feed, alertShown, initAt>>

\* the route promise of animator a settles and initialize() resumes
ResolveFetch ==
    /\ \E a \in pendingFetch, result \in ProviderResults :
          SetWorld(initializeResume(allBusData, World, a, result))
    /\ UNCHANGED <<pc, feed, alertShown, now, pollCount, lastPollAt, initAt,
                   allBusData, fitBoundsArg>>

TimerFire_KeepsTimer ==
    /\ \E t \in timers :
          SetWorld(timeoutCallback(allBusData, World, t.owner))
    /\ UNCHANGED <<pc, feed, alertShown, now, pollCount, lastPollAt, initAt,
                   allBusData, fitBoundsArg>>

\* a step timer fires
TimerFire ==
    /\ \E t \in timers :
          SetWorld(timeoutCallback(allBusData, [World EXCEPT !.timers = @ \ {t}], t.owner))
    /\ UNCHANGED <<pc, feed, alertShown, now, pollCount, lastPollAt, initAt,
                   allBusData, fitBoundsArg>>

Next ==
    \/ FetchAndInitMapOk
    \/ FetchAndInitMapFail
    \/ Poll
    \/ ResolveFetch
    \/ TimerFire

Spec == Init /\ [][Next]_vars

TypeOK ==
    /\ pc \in {"loading", "running", "loadFailed"}
    /\ Len(animators) <= Len(feed)
    /\ \A i \in 1..Len(activeBusAnimators) : activeBusAnimators[i] \in 1..Len(animators)
    /\ pendingFetch \subseteq 1..Len(animators)
    /\ \A t \in timers : t.owner \in 1..Len(animators)

\* ----------------------------------------------------------------- claims
AnimatorIds == DOMAIN animators
InRegistry(a) == \E i \in 1..Len(activeBusAnimators) : activeBusAnimators[i] = a
InitializedFor(i) == {a \in AnimatorIds : animators[a].busData = i /\ animators[a].initializeCalls >= 1}

\* C1: for every trip, initialize() has been invoked on at most one animator,
\* whatever polls, fetch resolutions and step timers have run; the trip of
\* every animator, a failed one included, still has its isAnimated flag set,
\* and no animator has had initialize() invoked twice.
C1_AtMostOnceAnimation ==
    /\ \A i \in 1..Len(allBusData) : Cardinality(InitializedFor(i)) <= 1
    /\ \A a \in AnimatorIds :
          /\ animators[a].initializeCalls <= 1
          /\ allBusData[animators[a].busData].isAnimated

\* a trip whose fetch failed, with an interval poll run besides the immediate one
C1_Witness ==
    /\ pollCount >= 1
    /\ \E a \in AnimatorIds :
          /\ animators[a].phase = "Failed"
          /\ Cardinality(InitializedFor(animators[a].busData)) = 1

\* C2: an animator whose fetch succeeded with n >= 2 coordinates and that has
\* reached Completed has made exactly n-1 steps, is no longer in the registry
\* and has had its completion callback invoked exactly once.
C2_CompletedIsRemoved ==
    \A a \in AnimatorIds :
        (animators[a].phase = "Completed" /\ Len(animators[a].routeCoordinates) >= 2)
        => /\ animators[a].steps = Len(animators[a].routeCoordinates) - 1
           /\ ~InRegistry(a)
           /\ animators[a].onCompleteCalls = 1

\* C3: an animator whose route request failed (provider error, no route, no
\* legs) has had its completion callback invoked exactly once and has never
\* placed its animated marker.
C3_FailureCallsBackOnce ==
    \A a \in AnimatorIds :
        (animators[a].phase = "Failed" /\ animators[a].startMarker = "null")
        => /\ animators[a].onCompleteCalls = 1
           /\ ~animators[a].marker.exists

\* C4: between tasks, no registry entry is an animator that has completed or failed.
C4_RegistryHoldsOnlyLive ==
    \A a \in AnimatorIds :
        InRegistry(a) => animators[a].phase \notin {"Completed", "Failed"}

\* C5: in every step the cursor of every animator stays or grows by exactly
\* one; it grows exactly when one of that animator's step timers fires; and an
\* animator that is animating afterwards has a step timer pending, also when
\* the segment ahead has zero length (the step is scheduled, not skipped).
C5_Step ==
    \A a \in AnimatorIds :
        LET old == animators[a]
            new == animators'[a]
            fired == \E t \in timers \ timers' : t.owner = a
        IN /\ new.animationIndex >= old.animationIndex
           /\ fired => new.animationIndex = old.animationIndex + 1
           /\ new.animationIndex # old.animationIndex => fired
           /\ new.phase = "Animating" =>
                 \E t \in timers' :
                    /\ t.owner = a
                    /\ t.delay = timeForSegmentMs(At(new.routeCoordinates, new.animationIndex),
                                                  At(new.routeCoordinates, new.animationIndex + 1))

C5_MonotonicCursor == [][C5_Step]_vars

\* an animator that has stepped across a zero-length segment
C5_Witness ==
    \E a \in AnimatorIds :
        LET an == animators[a]
        IN /\ an.animationIndex >= 1
           /\ an.steps = an.animationIndex
           /\ At(an.routeCoordinates, an.animationIndex - 1)
                 = At(an.routeCoordinates, an.animationIndex)

\* C6: every animator that has placed its animated marker has
\* 0 <= cursor < len(coordinates) and its marker at coordinates[cursor].
C6_CursorInRange ==
    \A a \in AnimatorIds :
        animators[a].marker.exists
        => /\ 0 <= animators[a].animationIndex
           /\ animators[a].animationIndex < Len(animators[a].routeCoordinates)
           /\ animators[a].marker.position
                 = At(animators[a].routeCoordinates, animators[a].animationIndex)

\* C7: for an animator that has been cleaned up, invoking cleanup() once more
\* changes nothing observable: registry, markers and callback count stay as
\* they are.
C7_CleanupIdempotent ==
    \A a \in AnimatorIds :
        animators[a].phase = "Completed" => cleanup(allBusData, World, a) = World

\* C8: map.fitBounds is never called with an empty bounds object.
C8_NoEmptyFit == fitBoundsArg.called => ~fitBoundsArg.bounds.empty

C10_NothingLeftOnMap ==
    \A a \in AnimatorIds :
        animators[a].phase \in {"Completed", "Failed"}
        => /\ ~animators[a].marker.map
           /\ animators[a].startMarker # "onMap"
           /\ animators[a].endMarker # "onMap"
           /\ ~(animators[a].renderer.map /\ animators[a].renderer.directions)

\* C11: an animator whose fetched geometry decoded to zero coordinates is
\* Failed, has had its completion callback invoked, has never placed its
\* animated marker and has set no step timer.
C11_EmptyGeometryFails ==
    \A a \in AnimatorIds :
        (animators[a].decodedFrom # NoPolyline /\ animators[a].routeCoordinates = <<>>)
        => /\ animators[a].phase = "Failed"
           /\ animators[a].onCompleteCalls = 1
           /\ ~animators[a].marker.exists
           /\ animators[a].timeoutsSet = 0

\* C12: an animator whose geometry has exactly one coordinate has placed its
\* marker at coordinates[0], has never set a step timer nor stepped, is
\* Completed and has had its completion callback invoked exactly once.
C12_SinglePointCompletes ==
    \A a \in AnimatorIds :
        Len(animators[a].routeCoordinates) = 1
        => /\ animators[a].marker.exists
           /\ animators[a].marker.position = animators[a].routeCoordinates[1]
           /\ animators[a].timeoutsSet = 0
           /\ animators[a].steps = 0
           /\ \A t \in timers : t.owner # a
           /\ animators[a].phase = "Completed"
           /\ animators[a].onCompleteCalls = 1

\* an animator that was given a one-point route
C12_Witness ==
    \E a \in AnimatorIds :
        /\ Len(animators[a].routeCoordinates) = 1
        /\ animators[a].phase = "Completed"

\* the positions of the placed markers of a registry
PlacedPositions(registry, anims) ==
    {anims[registry[i]].marker.position :
        i \in {j \in 1..Len(registry) :
                  /\ anims[registry[j]].marker.exists
                  /\ anims[registry[j]].marker.position # Undefined}}

Max(S) == CHOOSE x \in S : \A y \in S : x >= y

\* the smallest axis-aligned rectangle that contains every point of S
SmallestRect(S) ==
    IF S = {} THEN EmptyBounds
    ELSE [empty |-> FALSE,
          sw |-> <<Min({p[1] : p \in S}), Min({p[2] : p \in S})>>,
          ne |-> <<Max({p[1] : p \in S}), Max({p[2] : p \in S})>>]

\* the bounds built from markers at (10,10), (20,20), (0,30)
BoundsExample ==
    extend(extend(extend(EmptyBounds, <<10, 10>>), <<20, 20>>), <<0, 30>>)
        = [empty |-> FALSE, sw |-> <<0, 10>>, ne |-> <<20, 30>>]

\* C13: a poll that starts an animator hands map.fitBounds the smallest
\* lat/lng rectangle containing the marker position of every registry entry
\* that has a placed marker, entries without one contributing nothing (unless
\* extending by a position-less marker threw, and then nothing is applied);
\* markers at (10,10), (20,20), (0,30) give the corners (0,10) and (20,30).
C13_Step ==
    (Len(animators') > Len(animators) /\ Len(activeBusAnimators') > 0)
    => \/ fitBoundsArg' =
             [called |-> TRUE,
              bounds |-> SmallestRect(PlacedPositions(activeBusAnimators', animators'))]
       \/ /\ \E i \in 1..Len(activeBusAnimators') :
                /\ animators'[activeBusAnimators'[i]].marker.exists
                /\ animators'[activeBusAnimators'[i]].marker.position = Undefined
          /\ fitBoundsArg' = fitBoundsArg

C14_FailedState ==
    pc = "loadFailed"
    => /\ alertShown
       /\ allBusData = <<>>
       /\ animators = <<>>
       /\ activeBusAnimators = <<>>
       /\ pendingFetch = {}
       /\ timers = {}
       /\ lastPollAt = -1
       /\ initAt = -1
       /\ ~fitBoundsArg.called

C14_FeedFailureIsFatal == [](C14_FailedState) /\ [][pc # "loadFailed"]_vars

\* the load of a feed that holds a trip due at startup has failed
C14_Witness ==
    /\ pc = "loadFailed"
    /\ \E i \in 1..Len(feed) : feed[i].startTime <= now

\* point sequences with negative, zero, one-chunk and five-chunk values
SamplePoints == {<<0, 0>>, <<-1, 16>>, <<3850000, -12020000>>}

RoundTripSamples ==
    \A P \in SeqsUpTo(SamplePoints, MaxLen) : polylineDecode(polylineEncode(P)) = P

\* C15: decoding the encoding of a point sequence (coordinates in units of
\* 1e-5 degree) gives the sequence back: for the sample sequences, and for
\* every animator, whose routeCoordinates are the points of the route whose
\* encoding the provider delivered.
C15_RoundTrip ==
    /\ RoundTripSamples
    /\ \A a \in AnimatorIds :
          animators[a].decodedFrom # NoPolyline
          => \E P \in RoutePoints :
                /\ polylineEncode(P) = animators[a].decodedFrom
                /\ animators[a].routeCoordinates = P

\* an animator that decoded a route of two points
C15_Witness ==
    \E a \in AnimatorIds :
        /\ animators[a].decodedFrom # NoPolyline
        /\ Len(animators[a].routeCoordinates) >= 2

TimersOf(a, ts) == {t \in ts : t.owner = a}

\* C16: every animator has at most one pending step timer, and a timer is set
\* for an animator only in the task in which its previous timer fired, or,
\* for its first timer, in the task in which its fetch resolved.
C16_Step ==
    \A a \in AnimatorIds :
        (TimersOf(a, timers') \ timers # {})
        => \/ TimersOf(a, timers) \ timers' # {}
           \/ (animators[a].timeoutsSet = 0 /\ a \in pendingFetch /\ a \notin pendingFetch')

C16_AtMostOneTimer == \A a \in AnimatorIds : Cardinality(TimersOf(a, timers)) <= 1

C16_SequentialSteps == [](C16_AtMostOneTimer) /\ [][C16_Step]_vars

\* two animators with a step timer pending each, one of them its second
C16_Witness ==
    \E a, b \in AnimatorIds :
        /\ a # b
        /\ TimersOf(a, timers) # {}
        /\ animators[a].timeoutsSet >= 2
        /\ TimersOf(b, timers) # {}

CleanedUp(a) == animators[a].onCompleteCalls >= 1

\* C17: an animator on which cleanup() has run has no step timer pending and
\* no fetch in flight, and no later task changes it: its marker is never
\* placed or moved again and no timer is set for it.
C17_Quiet ==
    \A a \in AnimatorIds :
        CleanedUp(a) => (TimersOf(a, timers) = {} /\ a \notin pendingFetch)

C17_Step ==
    \A a \in AnimatorIds :
        CleanedUp(a) => (animators'[a] = animators[a] /\ TimersOf(a, timers') = {})

C17_NeverRevived == [](C17_Quiet) /\ [][C17_Step]_vars

\* a cleaned-up animator beside one that is still animating
C17_Witness ==
    \E a, b \in AnimatorIds :
        /\ CleanedUp(a)
        /\ animators[a].steps >= 1
        /\ animators[b].phase = "Animating"

\* animator a is the one a step acts on
Acted(a) ==
    \/ animators'[a] # animators[a]
    \/ TimersOf(a, timers') # TimersOf(a, timers)
    \/ (a \in pendingFetch) # (a \in pendingFetch')

\* C18: a task that acts on one animator (its fetch resolution, its step, its
\* cleanup) leaves every other animator, and every other animator's pending
\* timer, as they were.
C18_Step == \A a, b \in AnimatorIds : (a # b /\ Acted(a)) => ~Acted(b)

C18_Isolation == [][C18_Step]_vars

\* an animator that was cleaned up while another has its marker on the map
C18_Witness ==
    \E a, b \in AnimatorIds :
        /\ CleanedUp(a)
        /\ animators[b].marker.map
        /\ animators[b].phase = "Animating"

CallbackRuns(a) == animators'[a].onCompleteCalls > animators[a].onCompleteCalls

\* C19: whenever an animator's completion callback runs, the animator has
\* been inserted into the registry and is present in it.
C19_Step == \A a \in AnimatorIds : CallbackRuns(a) => InRegistry(a)

C20_Step ==
    \A a \in AnimatorIds :
        CallbackRuns(a)
        => /\ InRegistry(a)
           /\ activeBusAnimators' = SelectSeq(activeBusAnimators, LAMBDA x : x # a)

====
